---- MODULE Spec2Model ----
(***************************************************************************)
(* A model of the pxng front end: the chat pipeline of ChatInterface (its  *)
(* React state, the requests it has in flight and the closures they        *)
(* captured), the route table of App with the session guard, and the       *)
(* source list of a RAG answer.                                            *)
(*                                                                         *)
(* React semantics the model relies on: a handler reads the state and the  *)
(* props of the render that created it, so the code after an `await` still *)
(* sees the values of the render in which the request was issued; state    *)
(* setters called in one synchronous block are applied together.           *)
(*                                                                         *)
(* Abstraction: a message keeps id, timestamp, sender_id and recipient_id; *)
(* its content, sender_name and sources are not read by the pipeline and   *)
(* are left out of the store (the source list is modelled on its own).     *)
(***************************************************************************)
EXTENDS Integers, Sequences, FiniteSets, Bags

VARIABLES
    messages,       \* useState([])   : the message store
    newMessage,     \* useState('')   : the input text, a sequence of characters
    loading,        \* useState(false)
    queryMode,      \* useState(false)
    recipient,      \* prop: the recipient (its identity), or Null
    recipientType,  \* prop: the recipient type, or Null
    pending,        \* the requests in flight, a bag
    token,          \* localStorage 'token': Null when absent
    location,       \* the router's location, a sequence of path segments
    view,           \* what the router has mounted for the location
    ragMessage,     \* the message a message bubble is rendered for
    sourceList,     \* the entries of its "Sources:" list
    groupName,      \* CreateGroupPage useState('') : the name input
    description,    \* CreateGroupPage useState('') : the description input
    privacy,        \* CreateGroupPage useState('private')
    error,          \* CreateGroupPage useState('') : the error banner
    groupLoading,   \* CreateGroupPage useState(false) : its loading flag
    groupPending,   \* the POST /api/groups requests in flight
    groupNav        \* where CreateGroupPage has navigated to, or Nowhere

chatVars == <<messages, newMessage, loading, queryMode, recipient, recipientType,
              pending>>
routeVars == <<token, location, view>>
bubbleVars == <<ragMessage, sourceList>>
groupVars == <<groupName, description, privacy, error, groupLoading, groupPending,
               groupNav>>

vars == <<chatVars, routeVars, bubbleVars, groupVars>>

\* What each part leaves alone.
notChat == <<routeVars, bubbleVars, groupVars>>
notRoute == <<chatVars, bubbleVars, groupVars>>
notBubble == <<chatVars, routeVars, groupVars>>
notGroup == <<chatVars, routeVars, bubbleVars>>

----------------------------------------------------------------------------
\* Bounds of the model.

MaxHistory == 2     \* longest history response of the backend
MaxPending == 2     \* requests in flight at the same time

Null == "null"
Recipients == {"A", "B"}
RecipientTypes == {"user"}

\* The props the parent passes: nothing selected, a recipient whose type is
\* not known yet, and two conversations.
Props == {<<Null, Null>>, <<"A", Null>>, <<"A", "user">>, <<"B", "user">>}
CurrentUser == "me"
RagAssistant == "rag-assistant"

\* Timestamps and clock readings.
Times == {0, 1}

\* The texts the user types: empty, whitespace only, and one that trims to
\* something.
Texts == {<<>>, <<" ">>, <<" ", "x">>}

\* The pipeline specification lets a send be submitted only while its result
\* fits a store of these sizes and this many sends are in flight; the
\* histories it loads leave room for a send.
StoreSizes == {0, 1, 2}
LongStoreSizes == {0, 1, 2, 3, 4}
SendableInFlight == {0, 1}

----------------------------------------------------------------------------
\* String.prototype.trim on a sequence of characters.

RECURSIVE TrimStart(_)
TrimStart(s) ==
    IF s = <<>> THEN <<>>
    ELSE IF Head(s) = " " THEN TrimStart(Tail(s)) ELSE s

RECURSIVE TrimEnd(_)
TrimEnd(s) ==
    IF s = <<>> THEN <<>>
    ELSE IF s[Len(s)] = " " THEN TrimEnd(SubSeq(s, 1, Len(s) - 1)) ELSE s

Trim(s) == TrimEnd(TrimStart(s))

\* A blank test that forgets to trim.
IsBlankUntrimmed(s) == s = <<>>

\* !newMessage.trim()
IsBlank(s) == Trim(s) = <<>>

----------------------------------------------------------------------------
\* response.data.sort((a, b) => new Date(a.timestamp) - new Date(b.timestamp))

Compare(a, b) == a.timestamp - b.timestamp

\* x is placed after every element that does not compare greater than it:
\* Array.prototype.sort is stable.
RECURSIVE Insert(_, _)
Insert(s, x) ==
    IF s = <<>> THEN <<x>>
    ELSE IF Compare(x, Head(s)) < 0 THEN <<x>> \o s
    ELSE <<Head(s)>> \o Insert(Tail(s), x)

\* A sort that places x before the elements it ties with.
RECURSIVE InsertBeforeTies(_, _)
InsertBeforeTies(s, x) ==
    IF s = <<>> THEN <<x>>
    ELSE IF Compare(x, Head(s)) <= 0 THEN <<x>> \o s
    ELSE <<Head(s)>> \o InsertBeforeTies(Tail(s), x)

RECURSIVE SortUnstable(_)
SortUnstable(s) ==
    IF s = <<>> THEN <<>>
    ELSE InsertBeforeTies(SortUnstable(SubSeq(s, 1, Len(s) - 1)), s[Len(s)])

RECURSIVE SortByTimestamp(_)
SortByTimestamp(s) ==
    IF s = <<>> THEN <<>>
    ELSE Insert(SortByTimestamp(SubSeq(s, 1, Len(s) - 1)), s[Len(s)])

----------------------------------------------------------------------------
\* The backend, an external collaborator: what it may answer.

\* A history response for recipient r: up to MaxHistory messages of that
\* conversation, in any order of timestamps.  The i-th message to arrive is
\* given the id <<"h", i>>.
HistoryResponses(r) ==
    UNION { { [i \in 1..n |-> [id |-> <<"h", i>>, timestamp |-> ts[i],
                               sender_id |-> "peer", recipient_id |-> r]]
              : ts \in [1..n -> Times] }
            : n \in 0..MaxHistory }

\* The message the backend returns for POST /api/messages: the backend is
\* authoritative for id and timestamp.  Its ids are unique: the message is
\* named by the number of backend-created messages of the store it extends.
ServerMessage(msgs, t, r) ==
    [id |-> <<"srv", 1 + Cardinality({k \in 1..Len(msgs) : msgs[k].id[1] = "srv"})>>,
     timestamp |-> t, sender_id |-> CurrentUser, recipient_id |-> r]

----------------------------------------------------------------------------
\* The requests of the chat pipeline.

FetchRequest(r, rt) ==
    [kind |-> "fetch", recipient_id |-> r, recipient_type |-> rt]

\* A send request, with what the sendMessage closure captured at submit time.
SendRequest(kind, text, msgs, r) ==
    [kind |-> kind, text |-> text, messages |-> msgs, recipient |-> r]

\* The requests in flight of one kind.
InFlight == BagToSet(pending)
Issue(req) == pending (+) SetToBag({req})
Settle(req) == pending (-) SetToBag({req})

IsFetch(req) == req.kind = "fetch"
IsSend(req) == req.kind \in {"direct", "query"}

\* The number of send requests in flight.
SendsInFlight ==
    BagCardinality([req \in {q \in InFlight : IsSend(q)} |-> pending[req]])

\* What bounds the submission of a send that appends n messages.
CanIssueSendWithin(n, sizes) ==
    /\ BagCardinality(pending) < MaxPending
    /\ SendsInFlight \in SendableInFlight
    /\ Len(messages) + n \in sizes

CanIssueSend(n) == CanIssueSendWithin(n, StoreSizes)

\* An effect that looks at the recipient only.
EffectFetchesOnRecipient(r, rt) == r # Null

\* useEffect(() => { if (recipient && recipientType) fetchMessages(); })
EffectFetches(r, rt) == r # Null /\ rt # Null

----------------------------------------------------------------------------
\* ChatInterface after its first render and its mount effect.

ChatInit ==
    /\ messages = <<>>
    /\ newMessage = <<>>
    /\ queryMode = FALSE
    /\ \E p \in Props : recipient = p[1] /\ recipientType = p[2]
    /\ loading = EffectFetches(recipient, recipientType)
    /\ pending = IF EffectFetches(recipient, recipientType)
                 THEN SetToBag({FetchRequest(recipient, recipientType)})
                 ELSE EmptyBag

\* The parent renders ChatInterface with another recipient or recipient type:
\* the effect runs again and, when both are set, calls fetchMessages, which sets
\* the loading flag and issues GET /api/messages.  The store is left as it is.
RecipientChange(r, rt) ==
    /\ <<r, rt>> # <<recipient, recipientType>>
    /\ EffectFetches(r, rt) => BagCardinality(pending) < MaxPending
    /\ recipient' = r
    /\ recipientType' = rt
    /\ IF EffectFetches(r, rt)
       THEN /\ loading' = TRUE
            /\ pending' = Issue(FetchRequest(r, rt))
       ELSE UNCHANGED <<loading, pending>>
    /\ UNCHANGED <<messages, newMessage, queryMode>>
    /\ UNCHANGED notChat

\* fetchMessages, after the await: the response is sorted and replaces the store.
FetchResolved(req, data) ==
    /\ req \in InFlight
    /\ IsFetch(req)
    /\ data \in HistoryResponses(req.recipient_id)
    /\ messages' = SortByTimestamp(data)
    /\ loading' = FALSE
    /\ pending' = Settle(req)
    /\ UNCHANGED <<newMessage, queryMode, recipient, recipientType>>
    /\ UNCHANGED notChat

\* A catch block that leaves the loading flag set.
FetchRejectedKeepsLoading(req) ==
    /\ req \in InFlight
    /\ IsFetch(req)
    /\ pending' = Settle(req)
    /\ UNCHANGED <<messages, newMessage, loading, queryMode, recipient, recipientType>>
    /\ UNCHANGED notChat

\* A catch block that empties the store.
FetchRejectedClearsStore(req) ==
    /\ req \in InFlight
    /\ IsFetch(req)
    /\ messages' = <<>>
    /\ loading' = FALSE
    /\ pending' = Settle(req)
    /\ UNCHANGED <<newMessage, queryMode, recipient, recipientType>>
    /\ UNCHANGED notChat

\* fetchMessages, the catch block.
FetchRejected(req) ==
    /\ req \in InFlight
    /\ IsFetch(req)
    /\ loading' = FALSE
    /\ pending' = Settle(req)
    /\ UNCHANGED <<messages, newMessage, queryMode, recipient, recipientType>>
    /\ UNCHANGED notChat

\* onChange of the text input, which is disabled while loading.
InputChange(text) ==
    /\ ~loading
    /\ text \in Texts
    /\ text # newMessage
    /\ newMessage' = text
    /\ UNCHANGED <<messages, loading, queryMode, recipient, recipientType,
                   pending>>
    /\ UNCHANGED notChat

\* onChange of the "RAG Query Mode" checkbox.
ToggleQueryMode ==
    /\ queryMode' = ~queryMode
    /\ UNCHANGED <<messages, newMessage, loading, recipient, recipientType,
                   pending>>
    /\ UNCHANGED notChat

\* sendMessage up to its await.  The form can be submitted only while the
\* input and the button are enabled.
\*   - blank text: return;
\*   - query mode: POST /api/rag/query is issued;
\*   - direct mode: the request body reads recipient.id, which throws when the
\*     recipient is null; the catch block then resets the loading flag.
SendMessageWithin(sizes) ==
    /\ ~loading
    /\ IF IsBlank(newMessage)
       THEN UNCHANGED <<loading, pending>>
       ELSE IF queryMode
       THEN /\ CanIssueSendWithin(2, sizes)
            /\ loading' = TRUE
            /\ pending' = Issue(
                             SendRequest("query", newMessage, messages, recipient))
       ELSE IF recipient = Null
       THEN UNCHANGED <<loading, pending>>
       ELSE /\ CanIssueSendWithin(1, sizes)
            /\ loading' = TRUE
            /\ pending' = Issue(
                             SendRequest("direct", newMessage, messages, recipient))
    /\ UNCHANGED <<messages, newMessage, queryMode, recipient, recipientType>>
    /\ UNCHANGED notChat

SendMessage == SendMessageWithin(StoreSizes)

\* The same handler, for conversations of up to four messages.
SendMessageLong == SendMessageWithin(LongStoreSizes)

\* The two messages a query-mode send synthesizes, with the clock readings of
\* Date.now() and new Date() for each.
UserQuery(req, t1) ==
    [id |-> <<"temp", t1>>, timestamp |-> t1, sender_id |-> CurrentUser,
     recipient_id |-> req.recipient]

RagResponse(req, t2) ==
    [id |-> <<"rag", t2>>, timestamp |-> t2, sender_id |-> RagAssistant,
     recipient_id |-> req.recipient]

\* setMessages([...messages, userQuery, ragResponse]) : messages is the store
\* of the render in which the request was submitted.
QueryResult(req, t1, t2) == req.messages \o <<UserQuery(req, t1), RagResponse(req, t2)>>

\* setMessages([...messages, response.data])
DirectResult(req, m) == req.messages \o <<m>>

\* sendMessage after the await, query mode.  Building userQuery reads
\* recipient.id: with a null recipient it throws and the catch block runs.
\* The clock does not run backwards between the two messages.
QueryResolved(req, t1, t2) ==
    /\ req \in InFlight
    /\ req.kind = "query"
    /\ t1 \in Times /\ t2 \in Times /\ t1 <= t2
    /\ IF req.recipient = Null
       THEN UNCHANGED <<messages, newMessage>>
       ELSE /\ messages' = QueryResult(req, t1, t2)
            /\ newMessage' = <<>>
    /\ loading' = FALSE
    /\ pending' = Settle(req)
    /\ UNCHANGED <<queryMode, recipient, recipientType>>
    /\ UNCHANGED notChat

\* sendMessage after the await, direct mode: response.data is appended.
DirectResolved(req, t) ==
    /\ req \in InFlight
    /\ req.kind = "direct"
    /\ t \in Times
    /\ messages' = DirectResult(req,
                                ServerMessage(req.messages, t, req.recipient))
    /\ newMessage' = <<>>
    /\ loading' = FALSE
    /\ pending' = Settle(req)
    /\ UNCHANGED <<queryMode, recipient, recipientType>>
    /\ UNCHANGED notChat

\* A catch block that puts back the store of the submitting render.
SendRejectedRollsBack(req) ==
    /\ req \in InFlight
    /\ IsSend(req)
    /\ messages' = req.messages
    /\ loading' = FALSE
    /\ pending' = Settle(req)
    /\ UNCHANGED <<newMessage, queryMode, recipient, recipientType>>
    /\ UNCHANGED notChat

\* A catch block that also clears the input.
SendRejectedClears(req) ==
    /\ req \in InFlight
    /\ IsSend(req)
    /\ loading' = FALSE
    /\ newMessage' = <<>>
    /\ pending' = Settle(req)
    /\ UNCHANGED <<messages, queryMode, recipient, recipientType>>
    /\ UNCHANGED notChat

\* sendMessage, the catch block after a rejected request.
SendRejected(req) ==
    /\ req \in InFlight
    /\ IsSend(req)
    /\ loading' = FALSE
    /\ pending' = Settle(req)
    /\ UNCHANGED <<messages, newMessage, queryMode, recipient, recipientType>>
    /\ UNCHANGED notChat

\* The history responses of a conversation.
ConversationHistories(req) ==
    IF IsFetch(req)
    THEN {d \in HistoryResponses(req.recipient_id) : Len(d) <= 1}
    ELSE {}

\* One recipient's conversation: sends follow one another on a longer store.
ConversationNext ==
    \/ \E req \in InFlight : \E data \in ConversationHistories(req) : FetchResolved(req, data)
    \/ \E req \in InFlight : FetchRejected(req)
    \/ \E text \in Texts : InputChange(text)
    \/ ToggleQueryMode
    \/ SendMessageLong
    \/ \E req \in InFlight, t1 \in Times, t2 \in Times : QueryResolved(req, t1, t2)
    \/ \E req \in InFlight, t \in Times : DirectResolved(req, t)
    \/ \E req \in InFlight : SendRejected(req)

\* The history responses of the pipeline specification.
ShortHistories(req) ==
    IF IsFetch(req)
    THEN {d \in HistoryResponses(req.recipient_id) : Len(d) + 1 \in StoreSizes}
    ELSE {}

ChatNext ==
    \/ \E p \in Props : RecipientChange(p[1], p[2])
    \/ \E req \in InFlight : \E data \in ShortHistories(req) : FetchResolved(req, data)
    \/ \E req \in InFlight : FetchRejected(req)
    \/ \E text \in Texts : InputChange(text)
    \/ ToggleQueryMode
    \/ SendMessage
    \/ \E req \in InFlight, t1 \in Times, t2 \in Times : QueryResolved(req, t1, t2)
    \/ \E req \in InFlight, t \in Times : DirectResolved(req, t)
    \/ \E req \in InFlight : SendRejected(req)

\* The backend's history responses, up to MaxHistory messages.
Histories(req) ==
    IF IsFetch(req) THEN HistoryResponses(req.recipient_id) ELSE {}

\* The history loader alone, with the longer histories.
HistoryNext ==
    \/ \E p \in Props : RecipientChange(p[1], p[2])
    \/ \E req \in InFlight : \E data \in Histories(req) : FetchResolved(req, data)
    \/ \E req \in InFlight : FetchRejected(req)
    \/ \E text \in Texts : InputChange(text)
    \/ ToggleQueryMode

----------------------------------------------------------------------------
\* App: the route table and the session guard.

MaxSegments == 2    \* longest path visited

\* Path segments: the words of the route table, a word of no route, an id.
Segments == {"login", "signup", "dashboard", "groups", "communities", "create",
             "profile", "g7"}

Paths == UNION {[1..n -> Segments] : n \in 0..MaxSegments}

Tokens == {Null, "", "jwt"}

LoginPath == <<"login">>
DashboardPath == <<"dashboard">>

Static(text) == [kind |-> "static", text |-> text]
Param(text) == [kind |-> "param", text |-> text]

\* Route elements.
Page(name) == [kind |-> "page", name |-> name, to |-> <<>>]
Navigate(to) == [kind |-> "navigate", name |-> "Navigate", to |-> to]
NoElement == [kind |-> "none", name |-> "none", to |-> <<>>]

Branch(name, pattern, index, splat, guarded, element) ==
    [name |-> name, pattern |-> pattern, index |-> index, splat |-> splat,
     guarded |-> guarded, element |-> element]

\* A route table whose catch-all redirects to a path that is not declared.
AppRoutesFallbackAstray ==
    << Branch("login", <<Static("login")>>, FALSE, FALSE, FALSE, Page("LoginPage")),
       Branch("signup", <<Static("signup")>>, FALSE, FALSE, FALSE, Page("SignupPage")),
       Branch("layout", <<>>, FALSE, FALSE, TRUE, NoElement),
       Branch("index", <<>>, TRUE, FALSE, TRUE, Navigate(DashboardPath)),
       Branch("dashboard", <<Static("dashboard")>>, FALSE, FALSE, TRUE, Page("Dashboard")),
       Branch("groups/create", <<Static("groups"), Static("create")>>,
              FALSE, FALSE, TRUE, Page("CreateGroupPage")),
       Branch("groups/:groupId", <<Static("groups"), Param("groupId")>>,
              FALSE, FALSE, TRUE, Page("GroupPage")),
       Branch("communities/create", <<Static("communities"), Static("create")>>,
              FALSE, FALSE, TRUE, Page("CreateCommunityPage")),
       Branch("communities/:communityId", <<Static("communities"), Param("communityId")>>,
              FALSE, FALSE, TRUE, Page("CommunityPage")),
       Branch("fallback", <<>>, FALSE, TRUE, FALSE, Navigate(<<"home">>)) >>

\* A route table whose dashboard route is outside the guarded subtree.
AppRoutesDashboardOutside ==
    << Branch("login", <<Static("login")>>, FALSE, FALSE, FALSE, Page("LoginPage")),
       Branch("signup", <<Static("signup")>>, FALSE, FALSE, FALSE, Page("SignupPage")),
       Branch("layout", <<>>, FALSE, FALSE, TRUE, NoElement),
       Branch("index", <<>>, TRUE, FALSE, TRUE, Navigate(DashboardPath)),
       Branch("dashboard", <<Static("dashboard")>>, FALSE, FALSE, FALSE, Page("Dashboard")),
       Branch("groups/create", <<Static("groups"), Static("create")>>,
              FALSE, FALSE, TRUE, Page("CreateGroupPage")),
       Branch("groups/:groupId", <<Static("groups"), Param("groupId")>>,
              FALSE, FALSE, TRUE, Page("GroupPage")),
       Branch("communities/create", <<Static("communities"), Static("create")>>,
              FALSE, FALSE, TRUE, Page("CreateCommunityPage")),
       Branch("communities/:communityId", <<Static("communities"), Param("communityId")>>,
              FALSE, FALSE, TRUE, Page("CommunityPage")),
       Branch("fallback", <<>>, FALSE, TRUE, FALSE, Navigate(DashboardPath)) >>

\* <Routes>: the branches of the route table.  The children of the "/" route
\* are guarded by ProtectedRoute; the "/" route by itself is a branch too.
AppRoutes ==
    << Branch("login", <<Static("login")>>, FALSE, FALSE, FALSE, Page("LoginPage")),
       Branch("signup", <<Static("signup")>>, FALSE, FALSE, FALSE, Page("SignupPage")),
       Branch("layout", <<>>, FALSE, FALSE, TRUE, NoElement),
       Branch("index", <<>>, TRUE, FALSE, TRUE, Navigate(DashboardPath)),
       Branch("dashboard", <<Static("dashboard")>>, FALSE, FALSE, TRUE, Page("Dashboard")),
       Branch("groups/create", <<Static("groups"), Static("create")>>,
              FALSE, FALSE, TRUE, Page("CreateGroupPage")),
       Branch("groups/:groupId", <<Static("groups"), Param("groupId")>>,
              FALSE, FALSE, TRUE, Page("GroupPage")),
       Branch("communities/create", <<Static("communities"), Static("create")>>,
              FALSE, FALSE, TRUE, Page("CreateCommunityPage")),
       Branch("communities/:communityId", <<Static("communities"), Param("communityId")>>,
              FALSE, FALSE, TRUE, Page("CommunityPage")),
       Branch("fallback", <<>>, FALSE, TRUE, FALSE, Navigate(DashboardPath)) >>

\* Whether a branch matches a path: a splat matches every path, a static
\* segment matches itself, a parameter matches any segment.
BranchMatches(b, path) ==
    \/ b.splat
    \/ /\ Len(b.pattern) = Len(path)
       /\ \A i \in 1..Len(path) :
              b.pattern[i].kind = "static" => b.pattern[i].text = path[i]

RECURSIVE SegmentScore(_)
SegmentScore(pattern) ==
    IF pattern = <<>> THEN 0
    ELSE (IF Head(pattern).kind = "static" THEN 10 ELSE 3) + SegmentScore(Tail(pattern))

\* The router's ranking of a branch: the number of segments of its path, each
\* segment's value (static over parameter over empty), a bonus for an index
\* route and a penalty for a splat.
BranchScore(b) ==
    IF b.splat THEN 1
    ELSE IF b.pattern = <<>> THEN 4 + (IF b.index THEN 2 ELSE 0)
    ELSE Len(b.pattern) + 2 + SegmentScore(b.pattern)

\* The branch the router picks: the best-ranked branch that matches.
MatchRoute(path) ==
    LET matching == {i \in 1..Len(AppRoutes) : BranchMatches(AppRoutes[i], path)}
        best == CHOOSE i \in matching :
                    \A j \in matching : BranchScore(AppRoutes[i]) >= BranchScore(AppRoutes[j])
    IN AppRoutes[best]

\* ProtectedRoute: the token is present and non-empty.
HasToken(tok) == tok # Null /\ tok # ""

\* <ProtectedRoute>{children}</ProtectedRoute>
ProtectedRoute(tok, children) == IF HasToken(tok) THEN children ELSE Navigate(LoginPath)

\* The main area of Layout shows the children prop; the element of the
\* matched child route (the outlet) is not used by Layout.
LayoutMain(children, outlet) == children

\* What a view shows: the shell around the page, and the page.
Mounted(shell, page) == [shell |-> shell, page |-> page]
Unrendered == Mounted("none", "unrendered")

\* The element the router mounts for a branch: <Layout /> is given no
\* children.
RouteElement(b, tok) ==
    IF b.guarded THEN ProtectedRoute(tok, LayoutMain(NoElement, b.element)) ELSE b.element

RouteInit ==
    /\ token \in Tokens
    /\ location \in Paths
    /\ view = Unrendered

\* The user opens a path or follows a link.
Visit(path) ==
    /\ path \in Paths
    /\ location' = path
    /\ view' = Unrendered
    /\ UNCHANGED token
    /\ UNCHANGED notRoute

\* The router renders the location: a <Navigate> replaces the location,
\* anything else is mounted.
RouteRender ==
    /\ view = Unrendered
    /\ LET b == MatchRoute(location)
           e == RouteElement(b, token)
       IN IF e.kind = "navigate"
          THEN /\ location' = e.to
               /\ UNCHANGED view
          ELSE /\ view' = Mounted(IF b.guarded THEN "Layout" ELSE "none", e.name)
               /\ UNCHANGED location
    /\ UNCHANGED token
    /\ UNCHANGED notRoute

\* A login stores a token.
StoreToken ==
    /\ token' = "jwt"
    /\ UNCHANGED <<location, view>>
    /\ UNCHANGED notRoute

\* A logout that navigates and leaves the token in storage.
HandleLogoutKeepsToken ==
    /\ view.shell = "Layout"
    /\ location' = LoginPath
    /\ view' = Unrendered
    /\ UNCHANGED token
    /\ UNCHANGED notRoute

\* handleLogout, the Logout button of Layout.
HandleLogout ==
    /\ view.shell = "Layout"
    /\ token' = Null
    /\ location' = LoginPath
    /\ view' = Unrendered
    /\ UNCHANGED notRoute

\* Sidebar links, with "Create Group" pointing at the route that is declared.
SidebarLinksToDeclaredRoute ==
    {<<"dashboard">>, <<"groups">>, <<"communities">>, <<"profile">>,
     <<"groups", "create">>, <<"create", "community">>}

\* The targets of the <Link>s of the Layout's sidebar.
SidebarLinks ==
    {<<"dashboard">>, <<"groups">>, <<"communities">>, <<"profile">>,
     <<"create", "group">>, <<"create", "community">>}

\* The user follows a sidebar link of the mounted Layout.
FollowLink(target) ==
    /\ view.shell = "Layout"
    /\ target \in SidebarLinks
    /\ location' = target
    /\ view' = Unrendered
    /\ UNCHANGED token
    /\ UNCHANGED notRoute

RouteNext ==
    \/ \E path \in Paths : Visit(path)
    \/ RouteRender
    \/ StoreToken
    \/ HandleLogout
    \/ \E target \in SidebarLinks : FollowLink(target)

----------------------------------------------------------------------------
\* The "Sources:" list of a message bubble.

MaxSources == 4     \* most sources of a RAG answer

SourceLimit == 3    \* message.sources.slice(0, 3)

SourceTypes == {"message", "document_chunk", "note"}

NoSources == <<"undefined">>
NotShown == <<[item |-> "not shown", more |-> 0]>>

SourceSeqs == UNION {[1..n -> SourceTypes] : n \in 0..MaxSources}

\* The messages a bubble is rendered for: an answer of the assistant with or
\* without sources, and a message of a user.
Bubbles ==
    {[sender_id |-> RagAssistant, sources |-> s] : s \in SourceSeqs \cup {NoSources}}
    \cup {[sender_id |-> CurrentUser, sources |-> NoSources]}

\* One <li> of the list.
SourceItem(type) ==
    IF type = "message" THEN "Message from"
    ELSE IF type = "document_chunk" THEN "document chunk"
    ELSE "Unknown source"

Min(a, b) == IF a < b THEN a ELSE b

\* A list that summarizes from the third source on.
SourceEntriesOffByOne(sources) ==
    [i \in 1..Min(Len(sources), SourceLimit) |-> [item |-> SourceItem(sources[i]), more |-> 0]]
    \o (IF Len(sources) >= SourceLimit
        THEN <<[item |-> "more sources", more |-> Len(sources) - SourceLimit]>>
        ELSE <<>>)

\* message.sources.slice(0, 3).map(...) and the "+N more sources" entry.
SourceEntries(sources) ==
    [i \in 1..Min(Len(sources), SourceLimit) |-> [item |-> SourceItem(sources[i]), more |-> 0]]
    \o (IF Len(sources) > SourceLimit
        THEN <<[item |-> "more sources", more |-> Len(sources) - SourceLimit]>>
        ELSE <<>>)

\* message.sender_id === 'rag-assistant' && message.sources && (...)
ShowsSources(m) == m.sender_id = RagAssistant /\ m.sources # NoSources

BubbleInit ==
    /\ ragMessage \in Bubbles
    /\ sourceList = NotShown

\* The bubble is rendered.
RenderBubble ==
    /\ sourceList = NotShown
    /\ ShowsSources(ragMessage)
    /\ sourceList' = SourceEntries(ragMessage.sources)
    /\ UNCHANGED ragMessage
    /\ UNCHANGED notBubble

\* Another message is rendered.
NextBubble(m) ==
    /\ m \in Bubbles
    /\ ragMessage' = m
    /\ sourceList' = NotShown
    /\ UNCHANGED notBubble

BubbleNext ==
    \/ RenderBubble
    \/ \E m \in Bubbles : NextBubble(m)

----------------------------------------------------------------------------
\* CreateGroupPage: the create-group form.

GroupNames == {<<>>, <<" ">>, <<"g">>, <<" ", "g">>}
Descriptions == {"", "about"}
Privacies == {"private", "public"}
GroupIds == {"g1", "g2"}

\* No navigation yet.
Nowhere == <<>>

\* error.response?.data?.detail of a rejected request: Null when absent.
Details == {Null, "", "Name taken"}

NameRequired == "Group name is required"
CreateFailed == "Failed to create group. Please try again."

\* A test for a missing name that forgets to trim.
NameMissingUntrimmed(name) == name = <<>>

\* !groupName.trim()
NameMissing(name) == Trim(name) = <<>>

\* error.response?.data?.detail || 'Failed to create group. Please try again.'
ErrorText(detail) == IF detail = Null \/ detail = "" THEN CreateFailed ELSE detail

\* The form data of POST /api/groups.
GroupRequest(name, desc, priv) == [name |-> name, description |-> desc, privacy |-> priv]

GroupInit ==
    /\ groupName = <<>>
    /\ description = ""
    /\ privacy = "private"
    /\ error = ""
    /\ groupLoading = FALSE
    /\ groupPending = {}
    /\ groupNav = Nowhere

\* onChange of the name input.
GroupNameChange(name) ==
    /\ groupNav = Nowhere
    /\ name \in GroupNames
    /\ name # groupName
    /\ groupName' = name
    /\ UNCHANGED <<description, privacy, error, groupLoading, groupPending, groupNav>>
    /\ UNCHANGED notGroup

\* onChange of the description and of the privacy radio buttons.
GroupDetailsChange(desc, priv) ==
    /\ groupNav = Nowhere
    /\ desc \in Descriptions
    /\ priv \in Privacies
    /\ <<desc, priv>> # <<description, privacy>>
    /\ description' = desc
    /\ privacy' = priv
    /\ UNCHANGED <<groupName, error, groupLoading, groupPending, groupNav>>
    /\ UNCHANGED notGroup

\* A handleSubmit that leaves the previous error in place.
HandleSubmitKeepsError ==
    /\ groupNav = Nowhere
    /\ ~groupLoading
    /\ IF NameMissing(groupName)
       THEN /\ error' = NameRequired
            /\ UNCHANGED <<groupLoading, groupPending>>
       ELSE /\ UNCHANGED error
            /\ groupLoading' = TRUE
            /\ groupPending' = groupPending
                               \cup {GroupRequest(groupName, description, privacy)}
    /\ UNCHANGED <<groupName, description, privacy, groupNav>>
    /\ UNCHANGED notGroup

\* handleSubmit up to its await; the submit button is disabled while loading.
\* The error is cleared, then a missing name sets it and returns.
HandleSubmit ==
    /\ groupNav = Nowhere
    /\ ~groupLoading
    /\ IF NameMissing(groupName)
       THEN /\ error' = NameRequired
            /\ UNCHANGED <<groupLoading, groupPending>>
       ELSE /\ error' = ""
            /\ groupLoading' = TRUE
            /\ groupPending' = groupPending
                               \cup {GroupRequest(groupName, description, privacy)}
    /\ UNCHANGED <<groupName, description, privacy, groupNav>>
    /\ UNCHANGED notGroup

\* handleSubmit after the await: navigate(`/groups/${response.data.id}`), then
\* the finally block.
GroupCreated(req, id) ==
    /\ req \in groupPending
    /\ id \in GroupIds
    /\ groupNav' = <<"groups", id>>
    /\ groupLoading' = FALSE
    /\ groupPending' = groupPending \ {req}
    /\ UNCHANGED <<groupName, description, privacy, error>>
    /\ UNCHANGED notGroup

\* handleSubmit, the catch block and the finally block.
GroupRejected(req, detail) ==
    /\ req \in groupPending
    /\ detail \in Details
    /\ error' = ErrorText(detail)
    /\ groupLoading' = FALSE
    /\ groupPending' = groupPending \ {req}
    /\ UNCHANGED <<groupName, description, privacy, groupNav>>
    /\ UNCHANGED notGroup

\* The page is opened again after it has navigated away: a new mount.
GroupReopen ==
    /\ groupNav # Nowhere
    /\ groupName' = <<>>
    /\ description' = ""
    /\ privacy' = "private"
    /\ error' = ""
    /\ groupLoading' = FALSE
    /\ groupPending' = {}
    /\ groupNav' = Nowhere
    /\ UNCHANGED notGroup

GroupNext ==
    \/ \E name \in GroupNames : GroupNameChange(name)
    \/ \E desc \in Descriptions, priv \in Privacies : GroupDetailsChange(desc, priv)
    \/ HandleSubmit
    \/ \E req \in groupPending, id \in GroupIds : GroupCreated(req, id)
    \/ \E req \in groupPending, detail \in Details : GroupRejected(req, detail)
    \/ GroupReopen

----------------------------------------------------------------------------
\* The claims.

AllFor(msgs, r) == \A k \in 1..Len(msgs) : msgs[k].recipient_id = r

IsSorted(msgs) ==
    \A i, j \in 1..Len(msgs) : i < j => msgs[i].timestamp <= msgs[j].timestamp

IsPrefixOf(s, t) == Len(s) <= Len(t) /\ SubSeq(t, 1, Len(s)) = s

OnlyWhitespace(s) == \A k \in 1..Len(s) : s[k] = " "

\* C1: when the recipient has changed from A to B and the fetch for B has
\* filled the store, the late response of the fetch for A leaves the store
\* holding only B's messages.
C1_LateHistoryKeepsStore ==
    [][\A req \in InFlight : \A data \in Histories(req) :
          ( /\ req.recipient_id # recipient
            /\ EffectFetches(recipient, recipientType)
            /\ ~\E q \in InFlight : IsFetch(q) /\ q.recipient_id = recipient
            /\ messages # <<>>
            /\ AllFor(messages, recipient)
            /\ FetchResolved(req, data) )
          => AllFor(messages', recipient)]_vars

\* C2: a successful direct send appends exactly the backend's message, and
\* a successful query send exactly the echo and the answer, to the store as
\* it is when the response arrives.
C2_SendAppendsToStore ==
    [][\A req \in InFlight :
          /\ \A t \in Times :
                 DirectResolved(req, t)
                 => /\ Len(messages') = Len(messages) + 1
                    /\ IsPrefixOf(messages, messages')
                    /\ messages'[Len(messages')].id[1] = "srv"
          /\ \A t1, t2 \in Times :
                 (req.kind = "query" /\ req.recipient # Null /\ QueryResolved(req, t1, t2))
                 => /\ Len(messages') = Len(messages) + 2
                    /\ IsPrefixOf(messages, messages')
                    /\ messages'[Len(messages') - 1].id[1] = "temp"
                    /\ messages'[Len(messages')].id[1] = "rag"]_vars

\* C3: at most one send request is in flight.
C3_OneSendInFlight == SendsInFlight <= 1

\* C4: the store is in non-decreasing order of timestamp.
C4_StoreSorted == IsSorted(messages)

\* C5: a successful history load replaces the store with the response in
\* non-decreasing order of timestamp: the same messages, those of equal
\* timestamp in their order of arrival (the i-th to arrive has id <<"h", i>>).
C5_LoadHistorySortsStably ==
    [][\A req \in InFlight : \A data \in Histories(req) :
          FetchResolved(req, data)
          => /\ Len(messages') = Len(data)
             /\ \A k \in 1..Len(data) : \E i \in 1..Len(messages') : messages'[i] = data[k]
             /\ IsSorted(messages')
             /\ \A i, j \in 1..Len(messages') :
                    (i < j /\ messages'[i].timestamp = messages'[j].timestamp)
                    => messages'[i].id[2] < messages'[j].id[2]]_vars

\* A load has put the second message to arrive before the first.
C5_Witness ==
    /\ Len(messages) = 2
    /\ messages[1].id = <<"h", 2>>
    /\ messages[1].timestamp < messages[2].timestamp
    /\ ~loading

\* C6: submitting a text of whitespace only, or an empty one, issues no
\* request and leaves the store, the input text and the loading flag alone.
C6_BlankSubmitIsNoOp ==
    [][(SendMessage /\ OnlyWhitespace(newMessage))
       => UNCHANGED <<messages, newMessage, loading, pending>>]_vars

\* The form can be submitted with a text of whitespace.
C6_Witness ==
    /\ ~loading
    /\ newMessage = <<" ">>
    /\ EffectFetches(recipient, recipientType)
    /\ ENABLED SendMessage

\* A send whose handler ran to its end: the request resolved and, in query
\* mode, the recipient read after the await was there.
SuccessfulSend ==
    \E req \in InFlight :
        \/ \E t \in Times : DirectResolved(req, t)
        \/ /\ req.kind = "query"
           /\ req.recipient # Null
           /\ \E t1, t2 \in Times : QueryResolved(req, t1, t2)

\* C7: a successful send empties the input, and nothing else does but the
\* user: no failed send, history load or recipient change.
C7_InputClearedIffSendSucceeded ==
    [][/\ SuccessfulSend => newMessage' = <<>>
       /\ (newMessage # <<>> /\ newMessage' = <<>>)
          => (SuccessfulSend \/ InputChange(<<>>))]_vars

\* A send has succeeded and emptied the input.
C7_Witness ==
    /\ newMessage = <<>>
    /\ messages # <<>>
    /\ messages[Len(messages)].id[1] \in {"srv", "rag"}
    /\ pending = EmptyBag

\* A send whose handler ended in its catch block: the request was rejected,
\* or userQuery read the id of a null recipient.
FailedSend(req) ==
    \/ SendRejected(req)
    \/ /\ req.kind = "query"
       /\ req.recipient = Null
       /\ \E t1, t2 \in Times : QueryResolved(req, t1, t2)

\* C11: every history load and every send that completes, with success or
\* with failure, leaves the loading flag false; with no request in flight
\* the loading flag is false.
C11_LoadingResetInAllPaths ==
    /\ [](pending = EmptyBag => ~loading)
    /\ [][BagCardinality(pending') < BagCardinality(pending) => ~loading']_vars

\* A load and a send have completed and the form is enabled.
C11_Witness ==
    /\ pending = EmptyBag
    /\ ~loading
    /\ Len(messages) = 2
    /\ messages[2].id[1] = "srv"

\* C12: a failed send leaves the input text and the store as they were
\* when the failure arrived.
C12_FailedSendKeepsTextAndStore ==
    [][\A req \in InFlight :
          FailedSend(req) => (messages' = messages /\ newMessage' = newMessage)]_vars

\* A send is in flight for a text still in the input, and the store has
\* changed since the submit: a failure can arrive.
C12_Witness ==
    \E req \in InFlight :
        /\ IsSend(req)
        /\ newMessage = req.text
        /\ messages # req.messages
        /\ ENABLED SendRejected(req)

\* C13: a failed history load leaves the store as it was.
C13_FailedLoadKeepsStore ==
    [][\A req \in InFlight : FetchRejected(req) => messages' = messages]_vars

\* A history load is in flight over a store of two messages.
C13_Witness ==
    /\ Len(messages) = 2
    /\ \E req \in InFlight : IsFetch(req) /\ ENABLED FetchRejected(req)

\* C14: when the history load of the current recipient completes, with
\* success or with an error, the store holds no message of another recipient.
C14_StoreRebuiltOnRecipientChange ==
    [][\A req \in InFlight :
          ( /\ IsFetch(req)
            /\ req.recipient_id = recipient
            /\ \/ FetchRejected(req)
               \/ \E data \in Histories(req) : FetchResolved(req, data) )
          => AllFor(messages', recipient)]_vars

\* C16: while a request is in flight the loading flag is true, and no two
\* requests are in flight together.
C16_LoadingWhileInFlight ==
    /\ pending # EmptyBag => loading
    /\ BagCardinality(pending) <= 1

\* The copies of the history loads in a bag of requests.
FetchesIn(bag) ==
    BagCardinality([req \in {q \in BagToSet(bag) : IsFetch(q)} |-> bag[req]])

\* C17: the first render issues one history load when recipient and type are
\* both set, and none otherwise; a step that changes the recipient or the
\* type issues exactly one load, for the new pair, when both are set, and
\* none otherwise; no other step issues a load.
C17_HistoryLoadTriggers ==
    /\ FetchesIn(pending) = (IF recipient # Null /\ recipientType # Null THEN 1 ELSE 0)
    /\ [][IF <<recipient', recipientType'>> # <<recipient, recipientType>>
          THEN IF recipient' # Null /\ recipientType' # Null
               THEN pending' = pending (+) SetToBag({[kind |-> "fetch",
                                                      recipient_id |-> recipient',
                                                      recipient_type |-> recipientType']})
               ELSE pending' = pending
          ELSE \A q \in BagToSet(pending') :
                   IsFetch(q) => (q \in BagToSet(pending) /\ pending'[q] <= pending[q])]_vars

\* Two recipient changes have issued a load each.
C17_Witness ==
    /\ recipient = "B"
    /\ FetchesIn(pending) = 2
    /\ FetchRequest("B", "user") \in InFlight

\* The paths of the guarded subtree.
GuardedPaths ==
    {<<>>, <<"dashboard">>, <<"groups", "create">>, <<"communities", "create">>}
    \cup {<<"groups", x>> : x \in Segments}
    \cup {<<"communities", x>> : x \in Segments}

\* The paths a declared route pattern matches.
DeclaredPaths == GuardedPaths \cup {<<"login">>, <<"signup">>}

GuardedViews ==
    {"Layout", "Dashboard", "CreateGroupPage", "GroupPage", "CreateCommunityPage",
     "CommunityPage"}

ShowsGuarded(v) == v.shell \in GuardedViews \/ v.page \in GuardedViews

\* C8: a render mounts guarded content only with a token that is present
\* and non-empty; a guarded path without one is redirected to /login with
\* nothing mounted; /login and /signup are mounted whatever the token.
C8_SessionGuard ==
    [][RouteRender
       => /\ ShowsGuarded(view') => HasToken(token)
          /\ (location \in GuardedPaths /\ ~HasToken(token))
             => (location' = LoginPath /\ view' = Unrendered)
          /\ location = <<"login">> => view' = Mounted("none", "LoginPage")
          /\ location = <<"signup">> => view' = Mounted("none", "SignupPage")]_vars

\* A guarded path is shown to a session with a token.
C8_Witness ==
    /\ location = <<"groups", "create">>
    /\ view.shell = "Layout"
    /\ HasToken(token)

\* C9: a path no declared pattern matches is redirected to /dashboard, and
\* so is the root path (for a session the guard lets through).
C9_RootAndUnmatchedToDashboard ==
    [][RouteRender
       => /\ location \notin DeclaredPaths => location' = DashboardPath
          /\ (location = <<>> /\ HasToken(token)) => location' = DashboardPath]_vars

\* C10: the list itemizes the first min(N, 3) sources in their order, a
\* source of another type as "Unknown source", and ends with one entry
\* counting the N - 3 others exactly when N > 3.
C10_SourceList ==
    sourceList # NotShown
    => LET src == ragMessage.sources
           n == Len(src)
           itemized == {i \in 1..Len(sourceList) : sourceList[i].more = 0}
       IN /\ Cardinality(itemized) = (IF n < 3 THEN n ELSE 3)
          /\ itemized = 1..Cardinality(itemized)
          /\ \A i \in itemized :
                 /\ src[i] = "message" <=> sourceList[i].item = "Message from"
                 /\ src[i] = "document_chunk" <=> sourceList[i].item = "document chunk"
                 /\ src[i] \notin {"message", "document_chunk"}
                    <=> sourceList[i].item = "Unknown source"
          /\ Len(sourceList) = Cardinality(itemized) + (IF n > 3 THEN 1 ELSE 0)
          /\ n > 3 => sourceList[Len(sourceList)].more = n - 3

\* An answer with more than three sources, one of them of another type.
C10_Witness ==
    /\ sourceList # NotShown
    /\ Len(ragMessage.sources) = 4
    /\ ragMessage.sources[2] = "note"

\* C15: a submit of the create-group form with an empty or all-whitespace
\* name sets the error to 'Group name is required', sends no request, does
\* not navigate, and the loading flag is and stays false.
C15_MissingNameCaughtBeforeRequest ==
    [][(HandleSubmit /\ OnlyWhitespace(groupName))
       => /\ error' = "Group name is required"
          /\ groupPending' = groupPending
          /\ groupNav' = groupNav
          /\ ~groupLoading /\ ~groupLoading']_vars

\* A whitespace name has been submitted and refused.
C15_Witness ==
    /\ groupName = <<" ">>
    /\ error = "Group name is required"
    /\ ~groupLoading
    /\ groupPending = {}
    /\ groupNav = Nowhere

\* The outcomes of a create-group request.
CreatedStep(req) == \E id \in GroupIds : GroupCreated(req, id)
RejectedStep(req) == \E detail \in Details : GroupRejected(req, detail)

\* C20: a submit with a name clears the error and sends one request; the
\* request ends in one of two ways, each leaving the loading flag false:
\* created, with a navigation to /groups/{id} and the error still empty, or
\* rejected, with the error set to the backend's detail or the generic
\* message and no navigation.
C20_CreateGroupOutcomes ==
    [][/\ (HandleSubmit /\ ~OnlyWhitespace(groupName))
          => /\ error' = ""
             /\ groupLoading'
             /\ Cardinality(groupPending') = 1
       /\ \A req \in groupPending :
             /\ ~(CreatedStep(req) /\ RejectedStep(req))
             /\ groupPending' # groupPending => (CreatedStep(req) \/ RejectedStep(req))
             /\ CreatedStep(req)
                => /\ groupNav' \in {<<"groups", id>> : id \in GroupIds}
                   /\ error' = ""
                   /\ ~groupLoading'
             /\ RejectedStep(req)
                => /\ error' \in {"Name taken", "Failed to create group. Please try again."}
                   /\ groupNav' = Nowhere
                   /\ ~groupLoading']_vars

\* A group has been created and the page has navigated to it.
C20_Witness ==
    /\ groupNav = <<"groups", "g2">>
    /\ error = ""
    /\ ~groupLoading
    /\ groupPending = {}

\* C18: no two messages of the store have the same id.
C18_UniqueIds ==
    \A i, j \in 1..Len(messages) : i # j => messages[i].id # messages[j].id

\* C19: logout removes the token and navigates to /login; without a token
\* every render of a guarded path redirects to /login and mounts nothing
\* guarded; the token stays absent until a login stores one.
C19_LogoutDestroysSession ==
    [][/\ HandleLogout => (token' = Null /\ location' = <<"login">>)
       /\ (token = Null /\ token' # Null) => StoreToken
       /\ (RouteRender /\ token = Null /\ location \in GuardedPaths)
          => (location' = <<"login">> /\ ~ShowsGuarded(view'))]_vars

\* The Layout is mounted on the dashboard path: its Logout button can be used.
C19_Witness ==
    /\ location = <<"dashboard">>
    /\ token = "jwt"
    /\ ENABLED HandleLogout

\* C21: when a send succeeds, the input holds the text that was submitted
\* or is already empty: no other text, typed after the submit, is discarded.
C21_ClearedTextIsSubmittedText ==
    [][\A req \in InFlight :
          ( \/ \E t \in Times : DirectResolved(req, t)
            \/ /\ req.kind = "query"
               /\ req.recipient # Null
               /\ \E t1, t2 \in Times : QueryResolved(req, t1, t2) )
          => (newMessage = req.text \/ newMessage = <<>>)]_vars

\* A public page is mounted at its own path.
OnPublicPage ==
    \/ location = <<"login">> /\ view = Mounted("none", "LoginPage")
    \/ location = <<"signup">> /\ view = Mounted("none", "SignupPage")

\* The navigation has come to rest: with a token on a guarded route, inside
\* the Layout, or on a public page; without one on a public page.
Settled ==
    /\ view # Unrendered
    /\ \/ OnPublicPage
       \/ /\ HasToken(token)
          /\ location \in GuardedPaths
          /\ view.shell = "Layout"

\* C22: from every start path and token, the redirects come to an end and
\* the navigation settles, for good.
C22_NavigationSettles == <>[]Settled

\* A session without a token has been sent from /dashboard to /login.
C22_Witness ==
    /\ token = ""
    /\ location = <<"login">>
    /\ view = Mounted("none", "LoginPage")

\* C23: with a token, a sidebar link is followed to its target, which is
\* never /groups/create; the render of /dashboard stays there and mounts the
\* Layout; the render of every other target matches no declared route and
\* redirects to /dashboard.
C23_SidebarLinksEndOnDashboard ==
    [][/\ \A target \in SidebarLinks :
             FollowLink(target) => (location' = target /\ target # <<"groups", "create">>)
       /\ (RouteRender /\ HasToken(token) /\ location \in SidebarLinks)
          => IF location = <<"dashboard">>
             THEN location' = location /\ view'.shell = "Layout"
             ELSE location \notin DeclaredPaths /\ location' = <<"dashboard">>]_vars

\* The "Create Group" link has been followed and is about to be rendered.
C23_Witness ==
    /\ HasToken(token)
    /\ location = <<"create", "group">>
    /\ view = Unrendered

----------------------------------------------------------------------------
\* The specifications: each runs one part and leaves the others idle.

ChatIdle ==
    /\ messages = <<>>
    /\ newMessage = <<>>
    /\ loading = FALSE
    /\ queryMode = FALSE
    /\ recipient = Null
    /\ recipientType = Null
    /\ pending = EmptyBag

RouteIdle ==
    /\ token = Null
    /\ location = LoginPath
    /\ view = Unrendered

BubbleIdle ==
    /\ ragMessage = [sender_id |-> CurrentUser, sources |-> NoSources]
    /\ sourceList = NotShown

GroupIdle == GroupInit

Init == ChatInit /\ RouteIdle /\ BubbleIdle /\ GroupIdle

Next == ChatNext

\* The chat pipeline.
Spec == Init /\ [][Next]_vars

\* The history loader, with the backend's longer histories.
InitHistory == ChatInit /\ RouteIdle /\ BubbleIdle /\ GroupIdle

SpecHistory == InitHistory /\ [][HistoryNext]_vars

\* The router.
InitRoute == RouteInit /\ ChatIdle /\ BubbleIdle /\ GroupIdle

SpecRoute == InitRoute /\ [][RouteNext]_vars

\* One navigation, left to itself: the router renders until nothing is left
\* to render.
InitSettle == RouteInit /\ ChatIdle /\ BubbleIdle /\ GroupIdle

SettleNext == RouteRender

SpecSettle == InitSettle /\ [][SettleNext]_vars /\ WF_vars(RouteRender)

\* The source list.
InitBubble == BubbleInit /\ ChatIdle /\ RouteIdle /\ GroupIdle

SpecBubble == InitBubble /\ [][BubbleNext]_vars

\* One recipient's conversation.
InitConversation == ChatInit /\ RouteIdle /\ BubbleIdle /\ GroupIdle

SpecConversation == InitConversation /\ [][ConversationNext]_vars

\* The create-group form.
InitGroup == GroupInit /\ ChatIdle /\ RouteIdle /\ BubbleIdle

SpecGroup == InitGroup /\ [][GroupNext]_vars

====
